---- MODULE Spec2Model ----
(***************************************************************************)
(* Model of the staged summarization pipeline of summarize_enhanced.py     *)
(* (the main variant) and summarize_resume.py (the resume variant):        *)
(* the chunker, the gateway calls of the map step and of the reduce step,  *)
(* and the four partitions of the artifact store.                          *)
(***************************************************************************)
EXTENDS Integers, Sequences, FiniteSets, TLC

(***************************************************************************)
(* Text.  A text is a sequence of one-character strings.                   *)
(***************************************************************************)

Min(a, b) == IF a < b THEN a ELSE b

Max(a, b) == IF a > b THEN a ELSE b

IsSpace(c) == c \in {" ", "\n"}

RECURSIVE LStrip(_)
LStrip(s) ==
    IF s = <<>> THEN s
    ELSE IF IsSpace(Head(s)) THEN LStrip(Tail(s)) ELSE s

RECURSIVE RStrip(_)
RStrip(s) ==
    IF s = <<>> THEN s
    ELSE IF IsSpace(s[Len(s)]) THEN RStrip(SubSeq(s, 1, Len(s) - 1)) ELSE s

\* str.strip()
Strip(s) == RStrip(LStrip(s))

\* s[start:end] for 0 <= start, with Python's clamping of end
Slice(s, start, end) == SubSeq(s, start + 1, Min(end, Len(s)))

\* s[:k]
Prefix(s, k) == SubSeq(s, 1, Min(k, Len(s)))

\* s[-k:] for k > 0
Suffix(s, k) == SubSeq(s, Max(1, Len(s) - k + 1), Len(s))

RECURSIVE SeqsUpTo(_, _)
SeqsUpTo(S, k) ==
    IF k = 0 THEN {<<>>}
    ELSE LET shorter == SeqsUpTo(S, k - 1)
         IN  shorter \cup {Append(s, c) : s \in shorter, c \in S}

(***************************************************************************)
(* Chunker: chunk_text(text, length, overlap).                             *)
(***************************************************************************)

\* end = min(start + length, n)
ChunkWindowEnd(start, length, n) == Min(start + length, n)

ChunkNextStartGap(end, overlap) == end + overlap

ChunkNextStartBack(end, overlap) == Max(0, end - overlap - 1)

\* start = max(0, end - overlap)
ChunkNextStart(end, overlap) == Max(0, end - overlap)

ChunkAppendAlways(chunks, chunk) == Append(chunks, chunk)

ChunkAppendFront(chunks, chunk) == IF chunk # <<>> THEN <<chunk>> \o chunks ELSE chunks

\* chunk = text[start:end].strip(); if chunk: chunks.append(chunk)
ChunkAppend(chunks, chunk) == IF chunk # <<>> THEN Append(chunks, chunk) ELSE chunks

\* One pass through the body of the while loop, from a loop state
\* [start, chunks] with start < n; text is the trimmed text.
ChunkIteration(text, length, overlap, start, chunks) ==
    LET n     == Len(text)
        end   == ChunkWindowEnd(start, length, n)
        chunk == Strip(Slice(text, start, end))
    IN  [end    |-> end,
         chunks |-> ChunkAppend(chunks, chunk),
         break  |-> end = n,
         start  |-> IF end = n THEN start ELSE ChunkNextStart(end, overlap)]

RECURSIVE ChunkLoop(_, _, _, _, _)
ChunkLoop(text, length, overlap, start, chunks) ==
    IF ~(start < Len(text)) THEN chunks
    ELSE LET it == ChunkIteration(text, length, overlap, start, chunks)
         IN  IF it.break THEN it.chunks
             ELSE ChunkLoop(text, length, overlap, it.start, it.chunks)

\* The [start, end) windows that the loop takes on a trimmed text of length n,
\* from the loop state start, in at most fuel iterations.
RECURSIVE ChunkWindowsFrom(_, _, _, _, _)
ChunkWindowsFrom(n, length, overlap, start, fuel) ==
    IF fuel = 0 \/ ~(start < n) THEN <<>>
    ELSE LET end == ChunkWindowEnd(start, length, n)
         IN  <<[start |-> start, end |-> end]>> \o
                 (IF end = n THEN <<>>
                  ELSE ChunkWindowsFrom(n, length, overlap,
                                        ChunkNextStart(end, overlap), fuel - 1))

\* chunk_text as a function; defined where the loop terminates
chunk_text(text, length, overlap) ==
    LET t == Strip(text)
    IN  IF t = <<>> THEN <<>> ELSE ChunkLoop(t, length, overlap, 0, <<>>)

(***************************************************************************)
(* Bounds of the chunker's inputs.                                         *)
(***************************************************************************)

MaxTextLen == 5

MaxChunkLen == 3

MaxOverlap == 3

MaxIter == 7

Char == {"a", " "}

ChunkTexts == SeqsUpTo(Char, MaxTextLen)

\* the windows of the first MaxIter iterations of chunk_text
ChunkWindows(n, length, overlap) == ChunkWindowsFrom(n, length, overlap, 0, MaxIter)


(***************************************************************************)
(* Names.  A file stem (the day identity) and a file name are sequences of *)
(* characters, so that glob matching and sorting work on them as on        *)
(* strings.                                                                *)
(***************************************************************************)

Mon == <<"M">>

Tue == <<"T">>

Tue2 == <<"T", "2">>

\* "_summary.txt"
SUMMARY_SUFFIX == <<"_", "s", "u", "m", "m", "a", "r", "y", ".", "t", "x", "t">>

SummaryNameOneFile(stem) == SUMMARY_SUFFIX

\* out_name = f"{path.stem}_summary.txt"
SummaryName(stem) == stem \o SUMMARY_SUFFIX

SRT == <<".", "s", "r", "t">>

VTT == <<".", "v", "t", "t">>

TXT == <<".", "t", "x", "t">>

MASTER_NAME == <<"master_summary.txt">>

\* f"Weekly_Consulting_Summary_{timestamp}.docx"; ToString(ts) stands for
\* strftime("%Y%m%d_%H%M%S") of the second ts
ReportName(ts) == <<"Weekly_Consulting_Summary_", ToString(ts), ".docx">>

\* Path.suffix and Path.stem of a file name with one of the suffixes in use
PathSuffix(name) == SubSeq(name, Len(name) - 3, Len(name))

PathStem(name) == SubSeq(name, 1, Len(name) - 4)

\* the pattern *sub* of Path.glob: sub occurs somewhere in s
Contains(s, sub) ==
    \E i \in 0..(Len(s) - Len(sub)) : SubSeq(s, i + 1, i + Len(sub)) = sub

EndsWith(s, suffix) ==
    /\ Len(s) >= Len(suffix)
    /\ SubSeq(s, Len(s) - Len(suffix) + 1, Len(s)) = suffix

\* name matches the glob pattern f"*{day_name}*{ext}"
GlobDay(name, day_name, ext) ==
    /\ EndsWith(name, ext)
    /\ Contains(SubSeq(name, 1, Len(name) - Len(ext)), day_name)

CodePoint(c) ==
    CASE c = "." -> 46  [] c = "2" -> 50  [] c = "M" -> 77  [] c = "T" -> 84
      [] c = "_" -> 95  [] c = "a" -> 97  [] c = "m" -> 109 [] c = "r" -> 114
      [] c = "s" -> 115 [] c = "t" -> 116 [] c = "u" -> 117 [] c = "v" -> 118 [] c = "x" -> 120
      [] c = "y" -> 121

\* s < t as Python compares strings
RECURSIVE StrLess(_, _)
StrLess(s, t) ==
    IF t = <<>> THEN FALSE
    ELSE IF s = <<>> THEN TRUE
    ELSE IF Head(s) = Head(t) THEN StrLess(Tail(s), Tail(t))
    ELSE CodePoint(Head(s)) < CodePoint(Head(t))

\* sorted(S) for a set of strings
RECURSIVE Sorted(_)
Sorted(S) ==
    IF S = {} THEN <<>>
    ELSE LET least == CHOOSE x \in S : \A y \in S \ {x} : StrLess(x, y)
         IN  <<least>> \o Sorted(S \ {least})

\* sep.join(parts)
RECURSIVE Join(_, _)
Join(parts, sep) ==
    IF parts = <<>> THEN <<>>
    ELSE IF Len(parts) = 1 THEN parts[1]
    ELSE parts[1] \o sep \o Join(Tail(parts), sep)

Range(f) == {f[i] : i \in DOMAIN f}

(***************************************************************************)
(* Configuration of the pipeline.                                          *)
(***************************************************************************)

\* CHUNK_CHAR_LENGTH and CHUNK_CHAR_OVERLAP (15000 and 800 in the source),
\* scaled to the length of the model's documents
CHUNK_CHAR_LENGTH == 3

CHUNK_CHAR_OVERLAP == 1

\* report_content[:3000]
OPENING_EXCERPT == 3000

\* report_content[:2000] + "\n...\n" + report_content[-1000:]
CLOSING_HEAD == 2000

CLOSING_TAIL == 1000

(***************************************************************************)
(* The documents of the model.                                             *)
(***************************************************************************)

Blank == <<" ">>

Short == <<"a", "a">>

Long == <<"a", "a", " ", "a", "a">>

File(text) == [ok |-> TRUE, text |-> text]

\* a file whose read raises
Unreadable == [ok |-> FALSE, text |-> <<>>]

\* The raw transcripts directory: file name -> content as read_srt / read_vtt
\* return it.
RawThreeDays ==
    (Mon \o SRT :> File(Short)) @@ (Tue \o SRT :> File(Long))
        @@ (Tue2 \o SRT :> File(Short))

RawMixed ==
    (Mon \o SRT :> Unreadable) @@ (Tue \o SRT :> File(Short))
        @@ (Tue \o VTT :> File(Short)) @@ (Tue2 \o VTT :> File(Blank))

\* three days, each shorter than the chunk length
RawShortWeek ==
    (Mon \o SRT :> File(Short)) @@ (Tue \o SRT :> File(Short))
        @@ (Tue2 \o SRT :> File(Short))

RawEmpty == <<>>

RawMenu == {RawThreeDays, RawMixed, RawShortWeek, RawEmpty}

EnvMenu ==
    {[openai |-> TRUE, cerebras |-> TRUE], [openai |-> TRUE, cerebras |-> FALSE],
     [openai |-> FALSE, cerebras |-> TRUE]}

\* DAYS_TO_PROCESS
DaysMenu == {<<>>, <<Tue>>, <<Mon, Tue>>, <<Tue2, Tue>>}

VARIABLES
    ck,         \* one call of chunk_text: its arguments, locals and position
    env,        \* the credentials in the environment
    raw,        \* TRANSCRIPTS_DIR
    processed,  \* PROCESSED_TRANSCRIPTS_DIR: stem -> text of stem.txt
    daily,      \* DAILY_SUMMARIES_DIR: file name -> text
    master,     \* MASTER_SUMMARY_DIR / master_summary.txt
    reports,    \* OUTPUT_DIR: timestamp of the file name -> run that wrote it
    now,        \* the clock, in seconds
    runs,       \* number of runs started
    cfg,        \* the variant run and its configuration constants
    run,        \* main(): its position and locals
    calls,      \* history: the gateway calls of the run
    last,       \* history: the messages of the latest gateway call
    renders,    \* history: the calls of create_word_document of the run
    ops,        \* history: the file operations of the run
    before      \* history: the store when the run started

vars == <<ck, env, raw, processed, daily, master, reports, now, runs, cfg, run,
          calls, last, renders, ops, before>>

pipeVars == <<env, raw, processed, daily, master, reports, now, runs, cfg, run,
              calls, last, renders, ops, before>>

(***************************************************************************)
(* chunk_text step by step: one action per loop iteration.  windows is the *)
(* history of the [start, end) windows taken (not a variable of the code). *)
(***************************************************************************)

NoFile == [exists |-> FALSE, text |-> <<>>]

NoPath == [dir |-> "", name |-> <<>>]

NoRun ==
    [pc |-> "idle", result |-> "", todo |-> <<>>, di |-> 0, cur |-> NoPath,
     chunks |-> <<>>, ci |-> 0, partial |-> <<>>, mapped |-> <<>>, paths |-> <<>>,
     log |-> <<>>, master_text |-> <<>>, opening_text |-> <<>>, closing_text |-> <<>>]

NoCall == [stage |-> "", backend |-> "", system |-> "", user |-> <<>>]

NoCfg == [variant |-> "", days |-> <<>>, skip |-> FALSE]

NoChunking ==
    [pc |-> "done", arg |-> <<>>, text |-> <<>>, length |-> 1, overlap |-> 0,
     start |-> 0, chunks |-> <<>>, windows |-> <<>>]

\* No run of the pipeline: a fresh checkout, nothing in the store.
PipelineIdle ==
    /\ env = [openai |-> TRUE, cerebras |-> TRUE]
    /\ raw = <<>>
    /\ processed = <<>>
    /\ daily = <<>>
    /\ master = NoFile
    /\ reports = <<>>
    /\ now = 0
    /\ runs = 0
    /\ cfg = NoCfg
    /\ run = NoRun
    /\ calls = <<>>
    /\ last = NoCall
    /\ renders = <<>>
    /\ ops = {}
    /\ before = [processed |-> <<>>, daily |-> <<>>, master |-> NoFile, reports |-> <<>>]

ChunkInit ==
    /\ \E text \in ChunkTexts, length \in 1..MaxChunkLen, overlap \in 0..MaxOverlap :
        ck = [pc |-> "call", arg |-> text, text |-> <<>>, length |-> length,
              overlap |-> overlap, start |-> 0, chunks |-> <<>>, windows |-> <<>>]
    /\ PipelineIdle

\* text = text.strip(); if not text: return []; chunks = []; start = 0
ChunkEnter ==
    /\ ck.pc = "call"
    /\ LET t == Strip(ck.arg)
       IN  ck' = [ck EXCEPT !.text = t,
                            !.pc = IF t = <<>> THEN "done" ELSE "loop"]
    /\ UNCHANGED pipeVars

\* while start < n: ... (one iteration)
ChunkIter ==
    /\ ck.pc = "loop"
    /\ Len(ck.windows) < MaxIter
    /\ IF ~(ck.start < Len(ck.text))
       THEN ck' = [ck EXCEPT !.pc = "done"]
       ELSE LET it == ChunkIteration(ck.text, ck.length, ck.overlap, ck.start, ck.chunks)
            IN  ck' = [ck EXCEPT
                        !.chunks  = it.chunks,
                        !.windows = Append(@, [start |-> ck.start, end |-> it.end]),
                        !.start   = it.start,
                        !.pc      = IF it.break THEN "done" ELSE "loop"]
    /\ UNCHANGED pipeVars

ChunkNext == ChunkEnter \/ ChunkIter

SpecChunk == ChunkInit /\ [][ChunkNext]_vars

\* chunk_text runs in one thread that is never suspended for good: a call that
\* can take a step takes it
SpecChunkFair == SpecChunk /\ WF_vars(ChunkNext)

(***************************************************************************)
(* The pipeline.                                                           *)
(***************************************************************************)

\* What earlier runs have left in the store: nothing; the artifacts of a full
\* run of the main variant over RawThreeDays (run 0, at second 0); those of
\* the same run with the summarization of Tue failed.
StoreFresh ==
    [processed |-> <<>>, daily |-> <<>>, master |-> NoFile, reports |-> <<>>]

StoreWeek ==
    [processed |-> (Mon \o TXT :> Short) @@ (Tue \o TXT :> Long) @@ (Tue2 \o TXT :> Short),
     daily     |-> (SummaryName(Mon) :> <<"c", "0">>) @@ (SummaryName(Tue) :> <<"d", "0">>)
                       @@ (SummaryName(Tue2) :> <<"c", "0">>),
     master    |-> [exists |-> TRUE, text |-> <<"m", "0">>],
     reports   |-> (ReportName(0) :> 0)]

StorePartial ==
    [processed |-> (Mon \o TXT :> Short) @@ (Tue \o TXT :> Long) @@ (Tue2 \o TXT :> Short),
     daily     |-> (SummaryName(Mon) :> <<"c", "0">>) @@ (SummaryName(Tue2) :> <<"c", "0">>),
     master    |-> [exists |-> TRUE, text |-> <<"m", "0">>],
     reports   |-> (ReportName(0) :> 0)]

StoreMenu == {StoreFresh, StoreWeek, StorePartial}

Init ==
    /\ ck = NoChunking
    /\ env \in EnvMenu
    /\ raw \in RawMenu
    /\ \E st \in StoreMenu :
        /\ processed = st.processed
        /\ daily = st.daily
        /\ master = st.master
        /\ reports = st.reports
        /\ before = st
    /\ now = 0
    /\ runs = 0
    /\ cfg = NoCfg
    /\ run = NoRun
    /\ calls = <<>>
    /\ last = NoCall
    /\ renders = <<>>
    /\ ops = {}

Op(op, dir, name) == [op |-> op, dir |-> dir, name |-> name]

\* what the file behind a path holds
FileAt(path) ==
    IF path.dir = "processed" THEN File(processed[path.name]) ELSE raw[path.name]

(***************************************************************************)
(* process_transcripts                                                     *)
(***************************************************************************)

\* raw_files: the .srt / .vtt files of TRANSCRIPTS_DIR
RawFiles(dir) == {f \in DOMAIN dir : PathSuffix(f) \in {SRT, VTT}}

\* grouped_files.keys()
GroupedStems(dir) == {PathStem(f) : f \in RawFiles(dir)}

\* sorted(grouped_files[stem])
DayFiles(dir, stem) == Sorted({f \in RawFiles(dir) : PathStem(f) = stem})

\* combined_sections: the stripped text of every readable, non-empty file
RECURSIVE CombinedSections(_, _)
CombinedSections(dir, files) ==
    IF files = <<>> THEN <<>>
    ELSE LET f    == dir[Head(files)]
             text == Strip(f.text)
             rest == CombinedSections(dir, Tail(files))
         IN  IF ~f.ok \/ text = <<>> THEN rest ELSE <<text>> \o rest

\* combined_text = "\n\n".join(combined_sections)
CombinedText(dir, stem) == Join(CombinedSections(dir, DayFiles(dir, stem)), <<"\n", "\n">>)

NormalizedStopAtError(old, dir) ==
    LET stems == {st \in GroupedStems(dir) : CombinedText(dir, st) # <<>>}
    IN  IF \E f \in RawFiles(dir) : ~dir[f].ok THEN <<>>
        ELSE [n \in {st \o TXT : st \in stems} |-> CombinedText(dir, PathStem(n))]

NormalizedKeepOld(old, dir) ==
    LET stems == {st \in GroupedStems(dir) : CombinedText(dir, st) # <<>>}
    IN  [n \in {st \o TXT : st \in stems} |-> CombinedText(dir, PathStem(n))] @@ old

\* the processed directory that process_transcripts leaves
Normalized(old, dir) ==
    LET stems == {st \in GroupedStems(dir) : CombinedText(dir, st) # <<>>}
    IN  [n \in {st \o TXT : st \in stems} |-> CombinedText(dir, PathStem(n))]

\* processed_paths, in the order of sorted(grouped_files.keys())
RECURSIVE ProcessedPaths(_, _)
ProcessedPaths(dir, stems) ==
    IF stems = <<>> THEN <<>>
    ELSE LET rest == ProcessedPaths(dir, Tail(stems))
         IN  IF CombinedText(dir, Head(stems)) # <<>>
             THEN <<Head(stems) \o TXT>> \o rest ELSE rest

(***************************************************************************)
(* The Model Gateway.                                                      *)
(***************************************************************************)

StageChar(stage) ==
    CASE stage = "chunk" -> "c" [] stage = "compress" -> "d" [] stage = "master" -> "m"
      [] stage = "opening" -> "o" [] stage = "closing" -> "k"

\* What a call can do: raise, return only whitespace, or return a text (padded
\* with whitespace) that names the stage and the run.
Reply(stage) == <<" ", StageChar(stage), ToString(runs), "\n">>

Outcomes(stage) ==
    {[ok |-> FALSE, text |-> <<>>], [ok |-> TRUE, text |-> Blank],
     [ok |-> TRUE, text |-> Reply(stage)]}

BackendPrimaryOnly(stage) == "openai"

\* call_llm in the main variant; call_cerebras for the chunks and call_openai
\* for every other stage in the resume variant
Backend(stage) ==
    IF cfg.variant = "resume" /\ stage = "chunk" THEN "cerebras" ELSE "openai"

SystemPrompt(stage) ==
    CASE stage \in {"chunk", "compress"} -> "DAILY_SYSTEM_PROMPT"
      [] stage = "master"  -> "MASTER_SYSTEM_PROMPT"
      [] stage = "opening" -> "OPENING_SYSTEM_PROMPT"
      [] stage = "closing" -> "CLOSING_SYSTEM_PROMPT"

\* The call with outcome o is logged and its messages kept; user is the text
\* put into the user prompt template of the stage.
Call(stage, user, o) ==
    /\ calls' = Append(calls, [stage |-> stage, backend |-> Backend(stage),
                               di |-> run.di, idx |-> run.ci, user |-> user,
                               ok |-> o.ok, reply |-> o.text])
    /\ last' = [stage |-> stage, backend |-> Backend(stage),
                system |-> SystemPrompt(stage), user |-> user]

(***************************************************************************)
(* main(): the start of a run.  The configuration constants of the resume  *)
(* variant are edited between runs.                                        *)
(***************************************************************************)

Done(result) == [run EXCEPT !.pc = "done", !.result = result]

\* what main prints about the item of the map loop it is at: "saved" (Saved
\* daily summary), "empty" (Empty summary ..., skipping), "error" (Error
\* summarizing ...), "not_found" (No transcript found ..., skipping)
Report(r, kind) == [r EXCEPT !.log = Append(@, [di |-> r.di, kind |-> kind])]

\* the next iteration of the map loop (continue, or the end of its body)
AfterDoc(r) ==
    [r EXCEPT !.pc = "map", !.di = @ + 1, !.cur = NoPath, !.chunks = <<>>,
              !.ci = 0, !.partial = <<>>]

Begin(variant, days, skip, pc) ==
    /\ run.pc = "idle"
    /\ runs' = runs + 1
    /\ cfg' = [variant |-> variant, days |-> days, skip |-> skip]
    /\ run' = [NoRun EXCEPT !.pc = pc]
    /\ calls' = <<>>
    /\ last' = NoCall
    /\ renders' = <<>>
    /\ ops' = {}
    /\ before' = [processed |-> processed, daily |-> daily, master |-> master,
                  reports |-> reports]
    /\ UNCHANGED <<ck, env, raw, processed, daily, master, reports, now>>

\* summarize_enhanced.main: ensure_dirs(), then process_transcripts()
StartEnhanced == Begin("enhanced", <<>>, FALSE, "normalize")

\* summarize_resume.main: ensure_dirs(), then the LLMs are loaded
StartResume ==
    \E days \in DaysMenu, skip \in BOOLEAN : Begin("resume", days, skip, "load_llm")

\* processed_transcripts = process_transcripts()
\* if not processed_transcripts: return
ProcessTranscripts ==
    /\ run.pc = "normalize"
    /\ IF RawFiles(raw) = {}
       THEN /\ run' = Done("no_transcripts")
            /\ UNCHANGED <<processed, ops>>
       ELSE LET new   == Normalized(processed, raw)
                paths == ProcessedPaths(raw, Sorted(GroupedStems(raw)))
            IN  /\ processed' = new
                /\ ops' = ops \cup {Op("delete", "processed", n) : n \in DOMAIN processed}
                              \cup {Op("read", "raw", f) : f \in RawFiles(raw)}
                              \cup {Op("write", "processed", n) : n \in DOMAIN new}
                /\ run' = IF paths = <<>> THEN Done("no_transcripts")
                          ELSE [run EXCEPT !.pc = "load_llm", !.todo = paths]
    /\ UNCHANGED <<ck, env, raw, daily, master, reports, now, runs, cfg, calls, last,
                   renders, before>>

CredentialsOfUsedBackends ==
    IF cfg.variant = "resume"
    THEN env.openai /\ ((~cfg.skip /\ cfg.days # <<>>) => env.cerebras)
    ELSE env.openai

\* load_llm() in the main variant; load_cerebras_llm() and load_openai_llm()
\* in the resume variant: each raises when its key is not set
CredentialsPresent ==
    IF cfg.variant = "resume" THEN env.cerebras /\ env.openai ELSE env.openai

MapStepDueIgnoringSkip == cfg.days # <<>>

\* if not SKIP_DAILY_SUMMARIES and DAYS_TO_PROCESS:
MapStepDue == ~cfg.skip /\ cfg.days # <<>>

LoadLLM ==
    /\ run.pc = "load_llm"
    /\ run' = IF ~CredentialsPresent THEN Done("crashed")
              ELSE IF cfg.variant = "enhanced" THEN [run EXCEPT !.pc = "map", !.di = 1]
              ELSE IF MapStepDue
                   THEN [run EXCEPT !.pc = "map", !.todo = cfg.days, !.di = 1]
                   ELSE [run EXCEPT !.pc = "gather"]
    /\ UNCHANGED <<ck, env, raw, processed, daily, master, reports, now, runs, cfg, calls,
                   last, renders, ops, before>>

(***************************************************************************)
(* The map step.                                                           *)
(***************************************************************************)

InDir(dir, names) == {[dir |-> dir, name |-> n] : n \in names}

\* find_transcript_for_day: the paths it can return (the first path of a glob,
\* whose order is the directory's); the empty set when it returns None
FindTranscriptForDay(day_name) ==
    LET txt == {n \in DOMAIN processed : GlobDay(n, day_name, TXT)}
        srt == {n \in DOMAIN raw : GlobDay(n, day_name, SRT)}
        vtt == {n \in DOMAIN raw : GlobDay(n, day_name, VTT)}
    IN  IF txt # {} THEN InDir("processed", txt)
        ELSE IF srt # {} THEN InDir("raw", srt)
        ELSE InDir("raw", vtt)

OnMapErrorRetry(r) == r

OnMapErrorAbort(r) == [r EXCEPT !.pc = "done", !.result = "crashed"]

\* except Exception as e: print(...), and the loop goes on
OnMapError(r) == AfterDoc(Report(r, "error"))

OnNoChunksAsError(r) == AfterDoc(Report(r, "error"))

\* if not chunks: return "" and, in main, if not summary_text: continue
OnNoChunks(r) == AfterDoc(Report(r, "empty"))

\* summarize_transcript_file up to its first gateway call
Summarize(path) ==
    LET f == FileAt(path)
        chunks == chunk_text(f.text, CHUNK_CHAR_LENGTH, CHUNK_CHAR_OVERLAP)
        r == [run EXCEPT !.mapped = Append(@, [di |-> run.di, path |-> path])]
    IN  /\ ops' = ops \cup {Op("read", path.dir, path.name)}
        /\ run' = IF ~f.ok THEN OnMapError(r)
                  ELSE IF chunks = <<>> THEN OnNoChunks(r)
                  ELSE [r EXCEPT !.pc = "chunk", !.cur = path, !.chunks = chunks,
                                 !.ci = 1, !.partial = <<>>]

\* for path in transcript_files / for day_name in DAYS_TO_PROCESS
MapNext ==
    /\ run.pc = "map"
    /\ IF run.di > Len(run.todo)
       THEN /\ run' = [run EXCEPT !.pc = "gather"]
            /\ ops' = ops
       ELSE LET item  == run.todo[run.di]
                found == IF cfg.variant = "enhanced"
                         THEN InDir("processed", {item})
                         ELSE FindTranscriptForDay(item)
            IN  IF found = {}
                THEN /\ run' = AfterDoc(Report(run, "not_found"))
                     /\ ops' = ops
                ELSE \E path \in found : Summarize(path)
    /\ UNCHANGED <<ck, env, raw, processed, daily, master, reports, now, runs, cfg, calls,
                   last, renders, before>>

SaveSummaryKeepFirst(summary_text) ==
    LET out_name == SummaryName(PathStem(run.cur.name))
    IN  /\ daily' = daily @@ (out_name :> summary_text)
        /\ ops' = ops \cup {Op("write", "daily", out_name)}
        /\ run' = AfterDoc(Report(run, "saved"))

SaveSummarySkip(summary_text) ==
    /\ run' = AfterDoc(Report(run, "empty"))
    /\ UNCHANGED <<daily, ops>>

SaveSummaryAlways(summary_text) ==
    LET out_name == SummaryName(PathStem(run.cur.name))
    IN  /\ daily' = (out_name :> summary_text) @@ daily
        /\ ops' = ops \cup {Op("write", "daily", out_name)}
        /\ run' = [AfterDoc(Report(run, "saved")) EXCEPT
                     !.paths = IF cfg.variant = "enhanced" THEN Append(@, out_name) ELSE @]

\* main, after summarize_transcript_file has returned summary_text
SaveSummary(summary_text) ==
    LET out_name == SummaryName(PathStem(run.cur.name))
    IN  IF summary_text = <<>>
        THEN /\ run' = AfterDoc(Report(run, "empty"))
             /\ UNCHANGED <<daily, ops>>
        ELSE /\ daily' = (out_name :> summary_text) @@ daily
             /\ ops' = ops \cup {Op("write", "daily", out_name)}
             /\ run' = [AfterDoc(Report(run, "saved")) EXCEPT
                          !.paths = IF cfg.variant = "enhanced" THEN Append(@, out_name) ELSE @]

IsSingleNever(partial_summaries) == FALSE

\* if len(partial_summaries) == 1: return partial_summaries[0]
IsSingle(partial_summaries) == Len(partial_summaries) = 1

ChunkUserContentWithPrevious(chunks, i) ==
    IF i > 1 THEN chunks[i - 1] \o chunks[i] ELSE chunks[i]

\* for i, chunk in enumerate(chunks, start=1):
\*     user_prompt = DAILY_USER_PROMPT_TEMPLATE.format(transcript_chunk=chunk)
ChunkUserContent(chunks, i) == chunks[i]

\* chunk_summary = call_llm(llm, DAILY_SYSTEM_PROMPT, user_prompt)
\* partial_summaries.append(chunk_summary.strip())
ChunkCall ==
    /\ run.pc = "chunk"
    /\ \E o \in Outcomes("chunk") :
        /\ Call("chunk", ChunkUserContent(run.chunks, run.ci), o)
        /\ IF ~o.ok
           THEN /\ run' = OnMapError(run)
                /\ UNCHANGED <<daily, ops>>
           ELSE LET partial == Append(run.partial, Strip(o.text))
                IN  IF run.ci < Len(run.chunks)
                    THEN /\ run' = [run EXCEPT !.ci = @ + 1, !.partial = partial]
                         /\ UNCHANGED <<daily, ops>>
                    ELSE IF IsSingle(partial)
                    THEN SaveSummary(partial[1])
                    ELSE /\ run' = [run EXCEPT !.pc = "compress", !.partial = partial]
                         /\ UNCHANGED <<daily, ops>>
    /\ UNCHANGED <<ck, env, raw, processed, master, reports, now, runs, cfg, renders, before>>

\* "\n\n---\n\n"
MERGE_SEPARATOR == <<"\n", "\n", "-", "-", "-", "\n", "\n">>

\* merged_text = "\n\n---\n\n".join(partial_summaries)
MergedText(partial_summaries) == Join(partial_summaries, MERGE_SEPARATOR)

\* final_summary = call_llm(llm, DAILY_SYSTEM_PROMPT, user_prompt)
CompressCall ==
    /\ run.pc = "compress"
    /\ \E o \in Outcomes("compress") :
        /\ Call("compress", MergedText(run.partial), o)
        /\ IF ~o.ok
           THEN /\ run' = OnMapError(run)
                /\ UNCHANGED <<daily, ops>>
           ELSE SaveSummary(Strip(o.text))
    /\ UNCHANGED <<ck, env, raw, processed, master, reports, now, runs, cfg, renders, before>>

(***************************************************************************)
(* The reduce step.                                                        *)
(***************************************************************************)

\* the Daily Summary files in the store
StoredSummaries == {n \in DOMAIN daily : EndsWith(n, SUMMARY_SUFFIX)}

GatheredThisRunOnly == run.paths

\* daily_summary_paths: in the main variant the paths saved in this run; in
\* the resume variant sorted(DAILY_SUMMARIES_DIR.glob("*_summary.txt"))
GatheredPaths ==
    IF cfg.variant = "resume" THEN Sorted(StoredSummaries) ELSE run.paths

OnNoSummariesGoOn(r) == [r EXCEPT !.pc = "master", !.paths = <<>>]

\* print("No daily summaries ..."); return
OnNoSummaries(r) == [r EXCEPT !.pc = "done", !.result = "no_summaries"]

\* if not daily_summary_paths: return
Gather ==
    /\ run.pc = "gather"
    /\ LET paths == GatheredPaths
       IN  run' = IF paths = <<>> THEN OnNoSummaries(run)
                  ELSE [run EXCEPT !.pc = "master", !.paths = paths]
    /\ UNCHANGED <<ck, env, raw, processed, daily, master, reports, now, runs, cfg, calls,
                   last, renders, ops, before>>

\* f"=== {p.name} ===\n{f.read().strip()}"
MasterSection(p) ==
    <<"=", "=", "=", " ">> \o p \o <<" ", "=", "=", "=", "\n">> \o Strip(daily[p])

\* combined = "\n\n\n".join(texts)
Combined(paths) ==
    Join([i \in 1..Len(paths) |-> MasterSection(paths[i])], <<"\n", "\n", "\n">>)

OnMasterErrorGoOn(r) == [r EXCEPT !.pc = "opening"]

\* except Exception as e: print(...); return
OnMasterError(r) == Report([r EXCEPT !.pc = "done", !.result = "master_failed"], "master_error")

MasterFileTruncated(m) == [exists |-> TRUE, text |-> <<>>]

\* create_master_summary raises before master_out_path.open("w") is reached:
\* the file is as it was
MasterFileOnFailure(m) == m

\* master_text = create_master_summary(llm, daily_summary_paths), then the
\* write of master_summary.txt; except Exception: return
MasterCall ==
    /\ run.pc = "master"
    /\ \E o \in Outcomes("master") :
        /\ Call("master", Combined(run.paths), o)
        /\ IF ~o.ok
           THEN /\ run' = OnMasterError(run)
                /\ ops' = ops \cup {Op("read", "daily", p) : p \in Range(run.paths)}
                /\ master' = MasterFileOnFailure(master)
           ELSE /\ run' = [run EXCEPT !.pc = "opening", !.master_text = Strip(o.text)]
                /\ ops' = ops \cup {Op("read", "daily", p) : p \in Range(run.paths)}
                              \cup {Op("write", "master", MASTER_NAME)}
                /\ master' = [exists |-> TRUE, text |-> Strip(o.text)]
    /\ UNCHANGED <<ck, env, raw, processed, daily, reports, now, runs, cfg, renders, before>>

\* report_content[:3000]
OpeningExcerpt(report_content) == Prefix(report_content, OPENING_EXCERPT)

ClosingExcerptWhole(report_content) ==
    report_content \o <<"\n", ".", ".", ".", "\n">> \o Suffix(report_content, CLOSING_TAIL)

\* report_content[:2000] + "\n...\n" + report_content[-1000:]
ClosingExcerpt(report_content) ==
    Prefix(report_content, CLOSING_HEAD) \o <<"\n", ".", ".", ".", "\n">>
        \o Suffix(report_content, CLOSING_TAIL)

ParagraphRaw(o) == o.text

\* generate_opening_paragraph / generate_closing_paragraph and the handler
\* around it: the stripped reply, or "" when the call raised
Paragraph(o) == IF o.ok THEN Strip(o.text) ELSE <<>>

\* except Exception as e: print("Error generating opening: ...") and the like
\* for the closing
OnFramingError(r, kind) == Report(r, kind)

OpeningCall ==
    /\ run.pc = "opening"
    /\ \E o \in Outcomes("opening") :
        /\ Call("opening", OpeningExcerpt(run.master_text), o)
        /\ LET r == [run EXCEPT !.pc = "closing", !.opening_text = Paragraph(o)]
           IN  run' = IF o.ok THEN r ELSE OnFramingError(r, "opening_error")
    /\ UNCHANGED <<ck, env, raw, processed, daily, master, reports, now, runs, cfg, renders,
                   ops, before>>

ClosingCall ==
    /\ run.pc = "closing"
    /\ \E o \in Outcomes("closing") :
        /\ Call("closing", ClosingExcerpt(run.master_text), o)
        /\ LET r == [run EXCEPT !.pc = "render", !.closing_text = Paragraph(o)]
           IN  run' = IF o.ok THEN r ELSE OnFramingError(r, "closing_error")
    /\ UNCHANGED <<ck, env, raw, processed, daily, master, reports, now, runs, cfg, renders,
                   ops, before>>

OnRenderErrorSilent(r) == r

\* except Exception as e: print("Error creating Word document: ...")
OnRenderError(r) == Report(r, "render_error")

\* timestamp = datetime.now().strftime("%Y%m%d_%H%M%S")
\* create_word_document(master_text, opening_text, closing_text, docx_path)
\* The second read from the clock is that of the latest report or the next;
\* create_word_document writes the file or raises.
Render ==
    /\ run.pc = "render"
    /\ \E ts \in {now, now + 1}, ok \in BOOLEAN :
        /\ now' = ts
        /\ renders' = Append(renders, [content |-> run.master_text,
                                       opening |-> run.opening_text,
                                       closing |-> run.closing_text,
                                       name |-> ReportName(ts), ok |-> ok])
        /\ reports' = IF ok THEN (ReportName(ts) :> runs) @@ reports ELSE reports
        /\ ops' = IF ok THEN ops \cup {Op("write", "output", ReportName(ts))} ELSE ops
        /\ run' = IF ok THEN Done("finished") ELSE OnRenderError(Done("finished"))
    /\ UNCHANGED <<ck, env, raw, processed, daily, master, runs, cfg, calls, last, before>>

Next ==
    \/ StartEnhanced
    \/ StartResume
    \/ ProcessTranscripts
    \/ LoadLLM
    \/ MapNext
    \/ ChunkCall
    \/ CompressCall
    \/ Gather
    \/ MasterCall
    \/ OpeningCall
    \/ ClosingCall
    \/ Render

Spec == Init /\ [][Next]_vars

(***************************************************************************)
(* Properties.                                                             *)
(***************************************************************************)

\* the day identity in the name of a Daily Summary file
DayOf(name) == SubSeq(name, 1, Len(name) - Len(SUMMARY_SUFFIX))

Marked == Range(cfg.days)

ResumeRun == cfg.variant = "resume"

Finished == run.pc = "done" /\ run.result = "finished"

DailyWrites == {o \in ops : o.op = "write" /\ o.dir = "daily"}

\* the map-step calls made for the document of loop iteration di
DocCalls(di) ==
    {j \in DOMAIN calls : calls[j].di = di /\ calls[j].stage \in {"chunk", "compress"}}

\* the number of chunks of the document behind a path
ChunkCount(path) ==
    Len(chunk_text(FileAt(path).text, CHUNK_CHAR_LENGTH, CHUNK_CHAR_OVERLAP))

\* the map loop has left the document of mapped[i] behind
DocOver(i) == run.mapped[i].di < run.di \/ run.pc \notin {"chunk", "compress"}

\* the load or a gateway call raised for the document of mapped[i]
DocFailed(i) ==
    \/ ~FileAt(run.mapped[i].path).ok
    \/ \E j \in DocCalls(run.mapped[i].di) : ~calls[j].ok

\* the map loop is over and main went on to the reduce step
MapOver ==
    \/ run.pc \in {"gather", "master", "opening", "closing", "render"}
    \/ run.pc = "done" /\ run.result \in {"no_summaries", "master_failed", "finished"}

\* C1: in a resume run the only Daily Summary files written are those of the
\* marked day identities, and every Daily Summary persisted for an identity
\* that is not marked has the content it had before the run.
C1_OnlyMarkedDaysWritten ==
    ResumeRun =>
        /\ \A o \in DailyWrites : DayOf(o.name) \in Marked
        /\ \A n \in DOMAIN before.daily :
              DayOf(n) \notin Marked => n \in DOMAIN daily /\ daily[n] = before.daily[n]

\* C2: at the moment of the master call, in either variant, the Daily
\* Summaries passed to create_master_summary are exactly the Daily Summary
\* files in the store.
C2_MasterInputIsStore ==
    run.pc = "master" => Range(run.paths) = StoredSummaries

\* the reduce step of a finished run: one master call over every Daily Summary
\* in the store, then one opening call, one closing call and one render, all
\* fed by the reply of this run's master call
ReduceRedone ==
    LET k == Len(calls)
    IN  /\ k >= 3
        /\ calls[k - 2].stage = "master" /\ calls[k - 2].ok
        /\ calls[k - 1].stage = "opening"
        /\ calls[k].stage = "closing"
        /\ \A j \in 1..(k - 3) : calls[j].stage \in {"chunk", "compress"}
        /\ Range(run.paths) = StoredSummaries
        /\ master = [exists |-> TRUE, text |-> Strip(calls[k - 2].reply)]
        /\ Len(renders) = 1
        /\ renders[1].content = Strip(calls[k - 2].reply)

\* C3: a resume run, whatever days are marked and whether or not the map step
\* is skipped, ends only in one of four ways: the credentials are missing; the
\* store holds no Daily Summary; the master call raised; or it made the master
\* call afresh over every Daily Summary in the store, then the opening call,
\* the closing call and the render, from that call's reply.  With only Tue
\* marked while the summaries of Mon and Tue2 exist, one document goes through
\* the map step and, once its summary is saved, three summaries feed the
\* master call.
C3_ReduceAlwaysRedone ==
    /\ (ResumeRun /\ run.pc = "done") =>
          \/ run.result = "crashed" /\ ~CredentialsPresent
          \/ run.result = "no_summaries" /\ StoredSummaries = {}
          \/ /\ run.result = "master_failed"
             /\ calls[Len(calls)].stage = "master" /\ ~calls[Len(calls)].ok
          \/ run.result = "finished" /\ ReduceRedone
    /\ (/\ ResumeRun /\ MapOver /\ run.pc # "gather"
        /\ cfg.days = <<Tue>> /\ ~cfg.skip
        /\ DOMAIN before.daily = {SummaryName(Mon), SummaryName(Tue2)}) =>
          /\ Len(run.mapped) = 1
          /\ SummaryName(Tue) \in DOMAIN daily => Len(run.paths) = 3

C3_Witness ==
    /\ ResumeRun /\ Finished
    /\ cfg.days = <<Tue>> /\ ~cfg.skip
    /\ DOMAIN before.daily = {SummaryName(Mon), SummaryName(Tue2)}
    /\ Len(run.mapped) = 1
    /\ Len(run.paths) = 3
    /\ before.master.exists /\ master # before.master

\* C4: every iteration of the loop of chunk_text moves the window start
\* strictly forward, for every length and overlap, so that no window is taken
\* twice.
C4_StartMovesForward ==
    \A i \in 1..(Len(ck.windows) - 1) : ck.windows[i + 1].start > ck.windows[i].start

\* C5: for a text whose trimmed form has length n > 0 and overlap < length,
\* once chunk_text has returned, its windows start at 0, each starts at or
\* before the end of the one before it, the last ends at n, and every offset
\* 0..n-1 lies in some window.
C5_WindowsTile ==
    (ck.pc = "done" /\ ck.text # <<>> /\ ck.overlap < ck.length) =>
        LET w == ck.windows
            n == Len(ck.text)
        IN  /\ w # <<>>
            /\ w[1].start = 0
            /\ \A i \in 1..(Len(w) - 1) : w[i + 1].start <= w[i].end
            /\ w[Len(w)].end = n
            /\ \A k \in 0..(n - 1) : \E i \in DOMAIN w : w[i].start <= k /\ k < w[i].end

C5_Witness ==
    /\ ck.pc = "done" /\ ck.overlap > 0 /\ ck.overlap < ck.length
    /\ Len(ck.windows) >= 3
    /\ Len(ck.chunks) < Len(ck.windows)

\* C6: for a document whose load and calls all succeed, the map step makes no
\* call when it yields no chunk, exactly one call (a chunk call) when it
\* yields one chunk, and exactly N + 1 calls (N chunk calls and one
\* compression call) when it yields N > 1 chunks.
C6_CallCount ==
    \A i \in DOMAIN run.mapped :
        LET m  == run.mapped[i]
            cs == DocCalls(m.di)
            N  == ChunkCount(m.path)
        IN  (DocOver(i) /\ ~DocFailed(i)) =>
              /\ N = 0 => cs = {}
              /\ N = 1 => Cardinality(cs) = 1 /\ \A j \in cs : calls[j].stage = "chunk"
              /\ N > 1 =>
                    /\ Cardinality(cs) = N + 1
                    /\ Cardinality({j \in cs : calls[j].stage = "chunk"}) = N
                    /\ Cardinality({j \in cs : calls[j].stage = "compress"}) = 1

C6_Witness ==
    \E i \in DOMAIN run.mapped :
        /\ DocOver(i) /\ ~DocFailed(i)
        /\ ChunkCount(run.mapped[i].path) > 1
        /\ Cardinality(DocCalls(run.mapped[i].di)) = ChunkCount(run.mapped[i].path) + 1
        /\ \E h \in DOMAIN run.mapped :
              /\ DocOver(h) /\ ~DocFailed(h)
              /\ ChunkCount(run.mapped[h].path) = 1

\* C7: when a credential is missing, in either variant, the run fails before
\* any file of the store is read, deleted or written and before any gateway
\* call.
C7_NothingBeforeCredentialFailure ==
    run.result = "crashed" =>
        /\ ops = {}
        /\ calls = <<>>
        /\ processed = before.processed

\* every item of the map loop that has a transcript went through the map step
AllVisited ==
    LET found == {i \in DOMAIN run.todo :
                    cfg.variant = "enhanced" \/ FindTranscriptForDay(run.todo[i]) # {}}
    IN  /\ run.di = Len(run.todo) + 1 \/ run.todo = <<>>
        /\ Len(run.mapped) = Cardinality(found)

FailedSummary(i) == SummaryName(PathStem(run.mapped[i].path.name))

C9_MasterFailureEndsRun ==
    /\ [](\A j \in DOMAIN calls :
            (calls[j].stage = "master" /\ ~calls[j].ok) =>
                /\ j = Len(calls)
                /\ run.pc = "done" /\ run.result = "master_failed"
                /\ renders = <<>>
                /\ reports = before.reports
                /\ master = before.master)
    /\ [][(run.pc = "master" /\ run'.pc = "done") =>
            daily' = daily /\ master' = master /\ reports' = reports]_vars

C9_Witness ==
    /\ run.pc = "done" /\ run.result = "master_failed"
    /\ DailyWrites # {}
    /\ before.master.exists

\* the opening or the closing call of a finished run raised
FramingFailed == ~calls[Len(calls) - 1].ok \/ ~calls[Len(calls)].ok

\* C10 as stated: when the opening or the closing call raises, the renderer is
\* still called exactly once; the paragraph of a call that raised is empty and
\* the paragraph of a call that returned is the text the call returned.
C10_ParagraphIsReply ==
    (Finished /\ FramingFailed) =>
        LET k == Len(calls)
        IN  /\ Len(renders) = 1
            /\ renders[1].opening = (IF calls[k - 1].ok THEN calls[k - 1].reply ELSE <<>>)
            /\ renders[1].closing = (IF calls[k].ok THEN calls[k].reply ELSE <<>>)

\* C10 as amended: when the opening or the closing call raises, the renderer
\* is still called exactly once, on the master text; the paragraph of a call
\* that raised is the empty string and the paragraph of a call that returned
\* is the text it returned with the whitespace at its ends stripped.  Unless
\* the renderer itself raises, the Report of the run is in the output directory.
C10_FramingFailureStillRenders ==
    (Finished /\ FramingFailed) =>
        LET k == Len(calls)
        IN  /\ Len(renders) = 1
            /\ renders[1].opening = (IF calls[k - 1].ok THEN Strip(calls[k - 1].reply) ELSE <<>>)
            /\ renders[1].closing = (IF calls[k].ok THEN Strip(calls[k].reply) ELSE <<>>)
            /\ renders[1].content = run.master_text
            /\ renders[1].ok =>
                  /\ renders[1].name \in DOMAIN reports
                  /\ reports[renders[1].name] = runs

C10_Witness ==
    /\ Finished
    /\ ~calls[Len(calls) - 1].ok /\ calls[Len(calls)].ok
    /\ renders[1].opening = <<>>
    /\ renders[1].closing = <<"k", "1">>
    /\ renders[1].ok

\* C11: a run that renders writes its Report under a name no earlier run has
\* used, so the Report of an earlier run is not overwritten and the output
\* directory gains one file with every run that rendered.
C11_ReportNameIsNew ==
    (Finished /\ renders[1].ok) =>
        /\ renders[1].name \notin DOMAIN before.reports
        /\ \A n \in DOMAIN before.reports : n \in DOMAIN reports /\ reports[n] = before.reports[n]
        /\ Cardinality(DOMAIN reports) = Cardinality(DOMAIN before.reports) + 1

\* the documents of a run of the main variant are all shorter than the chunk
\* length: each yields one chunk
AllShort ==
    \A i \in DOMAIN run.todo : ChunkCount([dir |-> "processed", name |-> run.todo[i]]) = 1

\* a call that succeeded: it returned, and returned a text
Succeeded(c) == c.ok /\ Strip(c.reply) # <<>>

\* the Daily Summary file of the i-th document of a run of the main variant
TodoSummary(i) == SummaryName(PathStem(run.todo[i]))

\* C12: in a run of the main variant over k documents each shorter than the
\* chunk length, with every call succeeding and the renderer not raising:
\* when the master call is due, the calls made are k chunk calls, one per
\* document in order and no compression call, and the k Daily Summaries are
\* persisted; the master call consumes the k summaries; the finished run has
\* made k + 3 calls, the last three being the master, the opening and the
\* closing call in this order, and has then written exactly one Report file.
C12_ShortDocsCallSequence ==
    LET k == Len(run.todo)
        n == Len(calls)
    IN  (/\ cfg.variant = "enhanced" /\ MapOver /\ AllShort
         /\ \A j \in DOMAIN calls : Succeeded(calls[j])) =>
            /\ n >= k
            /\ \A i \in 1..k : calls[i].stage = "chunk" /\ calls[i].di = i
            /\ \A i \in 1..k :
                  /\ Op("write", "daily", TodoSummary(i)) \in ops
                  /\ daily[TodoSummary(i)] = Strip(calls[i].reply)
            /\ Cardinality(DailyWrites) = k
            /\ run.paths = [i \in 1..k |-> TodoSummary(i)]
            /\ run.pc \in {"gather", "master"} => n = k /\ renders = <<>>
            /\ run.pc = "opening" =>
                  /\ n = k + 1 /\ calls[n].stage = "master"
                  /\ last.user = Combined(run.paths)
                  /\ renders = <<>>
            /\ run.pc = "closing" =>
                  /\ n = k + 2 /\ calls[n - 1].stage = "master" /\ calls[n].stage = "opening"
                  /\ renders = <<>>
            /\ run.pc = "render" =>
                  /\ n = k + 3 /\ calls[n - 2].stage = "master"
                  /\ calls[n - 1].stage = "opening" /\ calls[n].stage = "closing"
                  /\ renders = <<>>
            /\ (Finished /\ renders[1].ok) =>
                  /\ n = k + 3 /\ calls[n - 2].stage = "master"
                  /\ calls[n - 1].stage = "opening" /\ calls[n].stage = "closing"
                  /\ Len(renders) = 1
                  /\ Cardinality({o \in ops : o.op = "write" /\ o.dir = "output"}) = 1

C12_Witness ==
    /\ cfg.variant = "enhanced" /\ Finished /\ renders[1].ok
    /\ AllShort /\ Len(run.todo) = 3
    /\ \A j \in DOMAIN calls : Succeeded(calls[j])
    /\ Len(calls) = 6
    /\ DOMAIN daily = {SummaryName(Mon), SummaryName(Tue), SummaryName(Tue2)}

\* C13: the windows of chunk_text slide over the trimmed text of length n:
\* window 0 starts at offset 0; window i starts at end_{i-1} - overlap (at
\* offset 0 when that is not an offset); every window ends at
\* min(start + length, n); and when chunk_text returns, the final window ends
\* at n.  For n = 40000, length = 15000 and overlap = 800 the windows are
\* exactly [0, 15000), [14200, 29200) and [28400, 40000).
C13_WindowsSlide ==
    LET w == ck.windows
        n == Len(ck.text)
    IN  /\ \A i \in DOMAIN w :
              /\ i = 1 => w[i].start = 0
              /\ i > 1 => w[i].start =
                              (IF w[i - 1].end - ck.overlap >= 0
                               THEN w[i - 1].end - ck.overlap ELSE 0)
              /\ w[i].end = (IF w[i].start + ck.length <= n
                             THEN w[i].start + ck.length ELSE n)
        /\ (ck.pc = "done" /\ ck.text # <<>>) =>
              /\ w[Len(w)].end = n
              /\ w = ChunkWindows(n, ck.length, ck.overlap)
        /\ ChunkWindowsFrom(40000, 15000, 800, 0, 4) =
              << [start |-> 0, end |-> 15000], [start |-> 14200, end |-> 29200],
                 [start |-> 28400, end |-> 40000] >>

C13_Witness ==
    /\ ck.pc = "done" /\ ck.length = 3 /\ ck.overlap = 1
    /\ Len(ck.windows) = 2
    /\ ck.windows[2].start = ck.windows[1].end - 1
    /\ ck.windows[2].end = Len(ck.text)
    /\ ck.windows[2].end < ck.windows[2].start + ck.length

\* C14: for a text whose trimmed form has length n > 0, and every length and
\* overlap, chunk_text returns, and returns at least one chunk.  The loop is a
\* function of its window start, an offset in 0..n-1, so a call that returns
\* has taken at most n windows: the call returns exactly when the number of
\* windows stays within n.
C14_ReturnsAtLeastOneChunk ==
    ck.text # <<>> =>
        /\ Len(ck.windows) <= Len(ck.text)
        /\ ck.pc = "done" => Len(ck.chunks) >= 1

\* the text of the document of mapped[i] was read and trims to empty
DocBlank(i) ==
    LET f == FileAt(run.mapped[i].path) IN f.ok /\ Strip(f.text) = <<>>

\* what main printed about the document of mapped[i]
DocLog(i) == {run.log[j].kind : j \in {h \in DOMAIN run.log : run.log[h].di = run.mapped[i].di}}

\* C15: a document whose text trims to empty yields no chunk; no gateway call
\* is made for it, no Daily Summary is written for it, main reports it as
\* skipped and not as an error, and the loop goes on to the next document.  In
\* the main variant such a document is already left out by
\* process_transcripts: it is not among the documents of the map step.
C15_BlankDocSkipped ==
    /\ \A i \in DOMAIN run.mapped :
          (DocBlank(i) /\ DocOver(i)) =>
              /\ ChunkCount(run.mapped[i].path) = 0
              /\ DocCalls(run.mapped[i].di) = {}
              /\ DocLog(i) = {"empty"}
              /\ (\A h \in DOMAIN run.mapped : h # i => FailedSummary(h) # FailedSummary(i)) =>
                    /\ Op("write", "daily", FailedSummary(i)) \notin ops
                    /\ FailedSummary(i) \in DOMAIN daily => FailedSummary(i) \in DOMAIN before.daily
              /\ run.result # "crashed"
              /\ MapOver => AllVisited
    /\ (cfg.variant = "enhanced" /\ run.pc \notin {"idle", "normalize"}) =>
          \A st \in GroupedStems(raw) :
              CombinedText(raw, st) = <<>> =>
                  /\ st \o TXT \notin DOMAIN processed
                  /\ st \o TXT \notin Range(run.todo)
                  /\ Op("write", "daily", SummaryName(st)) \notin ops

C15_Witness ==
    /\ MapOver
    /\ \E i, h \in DOMAIN run.mapped :
          /\ i < h
          /\ DocBlank(i)
          /\ DocLog(i) = {"empty"}
          /\ DocCalls(run.mapped[h].di) # {}
          /\ Op("write", "daily", FailedSummary(h)) \in ops

\* no later document of the map loop is saved under the name of mapped[i]
LastOfName(i) ==
    \A h \in DOMAIN run.mapped : h > i => FailedSummary(h) # FailedSummary(i)

\* C16 as stated: for a document that yields exactly one chunk and whose call
\* returns, no compression call is made, and the Daily Summary persisted for
\* it is, character for character, the text the call returned.
C16_SingleChunkVerbatim ==
    \A i \in DOMAIN run.mapped :
        LET m    == run.mapped[i]
            cs   == DocCalls(m.di)
            name == FailedSummary(i)
        IN  (DocOver(i) /\ ~DocFailed(i) /\ ChunkCount(m.path) = 1) =>
              /\ \A j \in cs : calls[j].stage = "chunk"
              /\ Cardinality(cs) = 1
              /\ \A j \in cs :
                    (Op("write", "daily", name) \in ops /\ LastOfName(i)) =>
                        daily[name] = calls[j].reply

\* C16 as amended: for a document that yields exactly one chunk and whose call
\* returns, no compression call is made, and the Daily Summary persisted for
\* it is the text the call returned with the whitespace at its ends stripped;
\* when nothing is left of it, nothing is written and the document is skipped.
C16_SingleChunkStripped ==
    \A i \in DOMAIN run.mapped :
        LET m    == run.mapped[i]
            cs   == DocCalls(m.di)
            name == FailedSummary(i)
        IN  (DocOver(i) /\ ~DocFailed(i) /\ ChunkCount(m.path) = 1) =>
              /\ \A j \in cs : calls[j].stage = "chunk"
              /\ Cardinality(cs) = 1
              /\ \A j \in cs :
                    LET returned == Strip(calls[j].reply)
                    IN  IF returned # <<>>
                        THEN /\ Op("write", "daily", name) \in ops
                             /\ LastOfName(i) => daily[name] = returned
                        ELSE DocLog(i) = {"empty"}

C16_Witness ==
    \E i \in DOMAIN run.mapped :
        /\ DocOver(i) /\ ~DocFailed(i) /\ ChunkCount(run.mapped[i].path) = 1
        /\ LastOfName(i)
        /\ \E j \in DocCalls(run.mapped[i].di) :
              /\ calls[j].reply = <<" ", "c", "1", "\n">>
              /\ daily[FailedSummary(i)] = <<"c", "1">>
        /\ FailedSummary(i) \in DOMAIN before.daily
        /\ before.daily[FailedSummary(i)] # <<"c", "1">>

\* the sections of a text delimited by sep (cur is the section being read)
RECURSIVE SplitAt(_, _, _)
SplitAt(s, sep, cur) ==
    IF s = <<>> THEN <<cur>>
    ELSE IF Len(s) >= Len(sep) /\ SubSeq(s, 1, Len(sep)) = sep
         THEN <<cur>> \o SplitAt(SubSeq(s, Len(sep) + 1, Len(s)), sep, <<>>)
         ELSE SplitAt(Tail(s), sep, Append(cur, Head(s)))

\* the results of the chunk calls that precede the compression call calls[k],
\* in chunk order
ChunkResults(k) ==
    LET N == Cardinality({j \in DocCalls(calls[k].di) : calls[j].stage = "chunk"})
    IN  [i \in 1..N |-> Strip(calls[k - N - 1 + i].reply)]

\* C17: the user content of the compression call holds the N > 1 chunk
\* results in chunk order as delimited sections, each section being its
\* result together with a tag of its chunk position, and the call uses the
\* daily system prompt.
C17_CompressSectionsTagged ==
    last.stage = "compress" =>
        LET results  == ChunkResults(Len(calls))
            sections == SplitAt(last.user, MERGE_SEPARATOR, <<>>)
        IN  /\ Len(results) > 1
            /\ last.system = "DAILY_SYSTEM_PROMPT"
            /\ Len(sections) = Len(results)
            /\ \A i \in DOMAIN results :
                  /\ Contains(sections[i], results[i])
                  /\ Len(sections[i]) > Len(results[i])

\* C18: in both variants the input of the master call is the concatenation of
\* the Daily Summaries in ascending order of their day identity (the stem of
\* the source file), each under a header that names its source.
C18_MasterInputOrderedByDay ==
    last.stage = "master" =>
        /\ \A i, j \in DOMAIN run.paths :
              i < j => StrLess(DayOf(run.paths[i]), DayOf(run.paths[j]))
        /\ LET sections == SplitAt(last.user, <<"\n", "\n", "\n">>, <<>>)
           IN  /\ Len(sections) = Len(run.paths)
               /\ \A i \in DOMAIN run.paths :
                     /\ Contains(sections[i], DayOf(run.paths[i]))
                     /\ EndsWith(sections[i], Strip(daily[run.paths[i]]))

\* the character offsets covered by a sequence of windows
Covered(w) == UNION {w[i].start .. (w[i].end - 1) : i \in DOMAIN w}

\* C19: for every text and every length L and overlap V < L, the offsets
\* covered by the windows of chunk_text(text, L, V) are those covered by the
\* windows of chunk_text(text, L, 0).
C19_OverlapKeepsCoverage ==
    (ck.pc = "done" /\ ck.overlap < ck.length) =>
        Covered(ck.windows) = Covered(ChunkWindows(Len(Strip(ck.arg)), ck.length, 0))

C19_Witness ==
    /\ ck.pc = "done" /\ ck.overlap > 0 /\ ck.overlap < ck.length
    /\ Len(ck.text) >= 4
    /\ Len(ck.windows) > Len(ChunkWindows(Len(ck.text), ck.length, 0))
    /\ Covered(ck.windows) = 0 .. (Len(ck.text) - 1)

\* the stems of the documents in the store and in the raw directory
DocStems ==
    {PathStem(f) : f \in DOMAIN raw \cup DOMAIN processed \cup DOMAIN before.processed}

\* the calls of this run whose returned text was saved as the Daily Summary
\* n: the last call of a document saved under n (its compression call, or its
\* chunk call when it has one chunk) that returned a text
SavedCalls(n) ==
    {j \in DOMAIN calls :
        /\ calls[j].ok /\ Strip(calls[j].reply) # <<>>
        /\ \E i \in DOMAIN run.mapped :
              /\ run.mapped[i].di = calls[j].di
              /\ FailedSummary(i) = n
              /\ \/ calls[j].stage = "compress"
                 \/ calls[j].stage = "chunk" /\ ChunkCount(run.mapped[i].path) = 1}

Latest(S) == CHOOSE j \in S : \A h \in S : h <= j

\* C20: summarizing a day again overwrites the Daily Summary stored under its
\* identity: the store holds one file per day identity, named after the stem
\* of the document and nothing else, no file is added for an identity that
\* has one, and the content of each file is that of the latest summarization
\* of the day that returned a summary (that of the earlier runs when this run
\* has none).
C20_SummaryOverwritten ==
    /\ \A n \in DOMAIN daily : EndsWith(n, SUMMARY_SUFFIX) /\ DayOf(n) \in DocStems
    /\ \A n, m \in DOMAIN daily : DayOf(n) = DayOf(m) => n = m
    /\ DOMAIN daily = DOMAIN before.daily \cup {n \in {SummaryName(st) : st \in DocStems} :
                                                   SavedCalls(n) # {}}
    /\ \A n \in DOMAIN daily :
          daily[n] = IF SavedCalls(n) # {}
                     THEN Strip(calls[Latest(SavedCalls(n))].reply)
                     ELSE before.daily[n]

C20_Witness ==
    /\ MapOver
    /\ DOMAIN daily = DOMAIN before.daily
    /\ \E n \in DOMAIN daily :
          /\ Cardinality(SavedCalls(n)) = 2
          /\ before.daily[n] = <<"c", "0">>
          /\ daily[n] = <<"c", "1">>
    /\ \E n \in DOMAIN daily : SavedCalls(n) = {} /\ daily[n] = before.daily[n]

\* C21: with SKIP_DAILY_SUMMARIES set, a resume run makes no map-step call,
\* reads no transcript and writes no Daily Summary, whatever DAYS_TO_PROCESS
\* holds; it ends only on missing credentials, on an empty store, on a master
\* call that raised, or after the master call over the summaries in the store
\* and then the opening call, the closing call and the render.
C21_SkipFlagSkipsMapOnly ==
    (ResumeRun /\ cfg.skip) =>
        /\ \A j \in DOMAIN calls : calls[j].stage \notin {"chunk", "compress"}
        /\ run.mapped = <<>>
        /\ \A j \in DOMAIN run.log :
              run.log[j].kind \notin {"saved", "empty", "error", "not_found"}
        /\ DailyWrites = {}
        /\ daily = before.daily
        /\ \A o \in ops : o.dir \notin {"raw", "processed"}
        /\ run.pc = "done" =>
              \/ run.result = "crashed" /\ ~CredentialsPresent
              \/ run.result = "no_summaries" /\ before.daily = <<>>
              \/ /\ run.result = "master_failed"
                 /\ Len(calls) = 1 /\ calls[1].stage = "master" /\ ~calls[1].ok
              \/ /\ run.result = "finished"
                 /\ ReduceRedone
                 /\ Len(calls) = 3
                 /\ Range(run.paths) = DOMAIN before.daily

C21_Witness ==
    /\ ResumeRun /\ cfg.skip /\ cfg.days = <<Mon, Tue>>
    /\ Finished /\ renders[1].ok
    /\ Len(calls) = 3
    /\ Len(run.paths) = 3
    /\ master # before.master

\* C22: when create_word_document raises, the failure is printed, no Report
\* is written, and the rendering step leaves the processed documents, the
\* Daily Summaries and the Master Summary as they were: after the run the
\* Master Summary file holds the master text of this run and every Daily
\* Summary written in this run is in the store.
C22_RenderFailureKeepsArtifacts ==
    /\ [](\A i \in DOMAIN renders :
            ~renders[i].ok =>
                /\ run.pc = "done" /\ run.result = "finished"
                /\ run.log # <<>> /\ run.log[Len(run.log)].kind = "render_error"
                /\ reports = before.reports
                /\ master = [exists |-> TRUE, text |-> renders[i].content]
                /\ master.text = Strip(calls[Len(calls) - 2].reply)
                /\ DOMAIN before.daily \subseteq DOMAIN daily
                /\ \A o \in DailyWrites : o.name \in DOMAIN daily)
    /\ [][run.pc = "render" =>
            daily' = daily /\ master' = master /\ processed' = processed]_vars

C22_Witness ==
    /\ Finished /\ ~renders[1].ok
    /\ DailyWrites # {}
    /\ before.master.exists /\ master.text = <<"m", "1">>
    /\ run.log[Len(run.log)].kind = "render_error"

\* the day identities of the documents of this run whose summary was saved
SavedStems ==
    {PathStem(run.mapped[i].path.name) :
        i \in {h \in DOMAIN run.mapped : "saved" \in DocLog(h)}}

\* C23: the Daily Summary file of a document is named by the stem of the
\* document and the suffix "_summary.txt" and by nothing else: the files
\* written in a run are those of the stems of the documents saved, one file
\* per stem, so two documents share a file exactly when they share a stem.
\* process_transcripts makes one processed document per stem, and the text of
\* every readable, non-empty raw file of the stem is part of it.
C23_SummaryKeyIsStem ==
    /\ {o.name : o \in DailyWrites} = {st \o SUMMARY_SUFFIX : st \in SavedStems}
    /\ Cardinality(DailyWrites) = Cardinality(SavedStems)
    /\ \A o \in DailyWrites : o.name \in DOMAIN daily
    /\ (cfg.variant = "enhanced" /\ run.pc \notin {"idle", "normalize"}
            /\ RawFiles(raw) # {}) =>
          /\ DOMAIN processed \subseteq {st \o TXT : st \in GroupedStems(raw)}
          /\ \A f \in RawFiles(raw) :
                (raw[f].ok /\ Strip(raw[f].text) # <<>>) =>
                    /\ PathStem(f) \o TXT \in DOMAIN processed
                    /\ Contains(processed[PathStem(f) \o TXT], Strip(raw[f].text))

C23_Witness ==
    /\ cfg.variant = "enhanced" /\ MapOver
    /\ raw = RawMixed
    /\ processed[Tue \o TXT] = Short \o <<"\n", "\n">> \o Short
    /\ SavedStems = {Tue}
    /\ Op("write", "daily", Tue \o SUMMARY_SUFFIX) \in ops

\* a raw file that can be read and holds text
Usable(f) == raw[f].ok /\ Strip(raw[f].text) # <<>>

\* C24: a source document that cannot be read is skipped and nothing else:
\* the run does not end on it; process_transcripts still writes the processed
\* document of every stem that has a usable raw file and hands it to the map
\* step; the map loop visits every document, reports the unreadable one as an
\* error without a call, and saves the Daily Summary of every other document
\* whose calls succeed.
C24_UnreadableDocSkipped ==
    /\ run.result = "crashed" => (~CredentialsPresent /\ calls = <<>>)
    /\ (cfg.variant = "enhanced" /\ run.pc \notin {"idle", "normalize"}) =>
          \A f \in RawFiles(raw) :
              Usable(f) =>
                  /\ PathStem(f) \o TXT \in DOMAIN processed
                  /\ Contains(processed[PathStem(f) \o TXT], Strip(raw[f].text))
                  /\ Op("write", "processed", PathStem(f) \o TXT) \in ops
                  /\ PathStem(f) \o TXT \in Range(run.todo)
    /\ MapOver =>
          /\ AllVisited
          /\ \A i \in DOMAIN run.mapped :
                LET m == run.mapped[i]
                IN  /\ ~FileAt(m.path).ok =>
                          DocLog(i) = {"error"} /\ DocCalls(m.di) = {}
                    /\ (/\ FileAt(m.path).ok /\ ChunkCount(m.path) >= 1
                        /\ \A j \in DocCalls(m.di) : Succeeded(calls[j])) =>
                          /\ DocLog(i) = {"saved"}
                          /\ Op("write", "daily", FailedSummary(i)) \in ops
                          /\ FailedSummary(i) \in DOMAIN daily

C24_Witness ==
    /\ cfg.variant = "enhanced" /\ MapOver
    /\ \E f \in RawFiles(raw) :
          /\ ~raw[f].ok
          /\ Op("read", "raw", f) \in ops
          /\ PathStem(f) \o TXT \notin DOMAIN processed
    /\ \E i \in DOMAIN run.mapped :
          /\ DocLog(i) = {"saved"}
          /\ \A j \in DocCalls(run.mapped[i].di) : Succeeded(calls[j])

\* what main prints when a call of the given stage raises
ErrorLine(c) ==
    CASE c.stage \in {"chunk", "compress"} -> [di |-> c.di, kind |-> "error"]
      [] c.stage = "master"  -> [di |-> c.di, kind |-> "master_error"]
      [] c.stage = "opening" -> [di |-> c.di, kind |-> "opening_error"]
      [] c.stage = "closing" -> [di |-> c.di, kind |-> "closing_error"]

\* C25: after a gateway call raises, the run makes no further call for the
\* same item of the map loop or the same stage: none with the same content,
\* none for the same chunk on the other backend, and for a map-step call
\* none for the document at all; a failed master call is the last call of the
\* run.  main prints the failure with the document or the stage it belongs to.
C25_FailedCallNotRetried ==
    \A j \in DOMAIN calls :
        ~calls[j].ok =>
            /\ \A h \in DOMAIN calls :
                  h > j =>
                      /\ ~(calls[h].di = calls[j].di /\ calls[h].user = calls[j].user)
                      /\ ~(calls[h].di = calls[j].di /\ calls[h].stage = calls[j].stage
                              /\ calls[h].idx = calls[j].idx)
                      /\ calls[j].stage \in {"chunk", "compress"} =>
                            ~(calls[h].di = calls[j].di
                                /\ calls[h].stage \in {"chunk", "compress"})
            /\ calls[j].stage = "master" => j = Len(calls)
            /\ \E l \in DOMAIN run.log : run.log[l] = ErrorLine(calls[j])

C25_Witness ==
    /\ ResumeRun /\ Finished
    /\ \E j, h \in DOMAIN calls :
          /\ j < h
          /\ calls[j].stage = "chunk" /\ calls[j].backend = "cerebras" /\ ~calls[j].ok
          /\ calls[j].idx = 1
          /\ calls[h].stage = "chunk" /\ calls[h].ok /\ calls[h].di > calls[j].di
    /\ \E j \in DOMAIN calls : calls[j].stage = "opening" /\ ~calls[j].ok

\* C26: for each marked day identity the resume run takes the processed
\* document of that identity when the processed directory has one, a raw
\* transcript of that identity only when it has none, and skips the day when
\* there is neither.
C26_SourceOfMarkedDay ==
    ResumeRun =>
        /\ \A i \in DOMAIN run.mapped :
              LET day == run.todo[run.mapped[i].di]
                  p   == run.mapped[i].path
              IN  IF day \o TXT \in DOMAIN processed
                  THEN p = [dir |-> "processed", name |-> day \o TXT]
                  ELSE p.dir = "raw" /\ p.name \in {day \o SRT, day \o VTT}
        /\ \A l \in DOMAIN run.log :
              run.log[l].kind = "not_found" =>
                  LET day == run.todo[run.log[l].di]
                  IN  /\ day \o TXT \notin DOMAIN processed
                      /\ day \o SRT \notin DOMAIN raw
                      /\ day \o VTT \notin DOMAIN raw

\* the positions in the call log of the calls of the given stages
CallsOf(stages) == {j \in DOMAIN calls : calls[j].stage \in stages}

\* the map loop has ended the iteration di (saved, skipped or failed)
DocSettled(di) ==
    \E l \in DOMAIN run.log :
        /\ run.log[l].di = di
        /\ run.log[l].kind \in {"saved", "empty", "error", "not_found"}

\* C27: the master call is made only after the map step of every document
\* has ended (saved, skipped or failed), no map-step call follows it, and the
\* opening and closing calls are made only after a master call has returned
\* and its stripped reply has been written as the Master Summary.
C27_StagesInOrder ==
    /\ \A j \in CallsOf({"master"}) :
          /\ \A k \in CallsOf({"chunk", "compress"}) : k < j
          /\ \A di \in 1..Len(run.todo) : DocSettled(di)
    /\ \A j \in CallsOf({"opening", "closing"}) :
          /\ \E k \in CallsOf({"master"}) : k < j /\ calls[k].ok
          /\ Op("write", "master", MASTER_NAME) \in ops
          /\ \E k \in CallsOf({"master"}) :
                master = [exists |-> TRUE, text |-> Strip(calls[k].reply)]

\* a run with chunk and compression calls, a failed document, then the
\* master, opening and closing calls
C27_Witness ==
    /\ CallsOf({"chunk"}) # {} /\ CallsOf({"compress"}) # {}
    /\ \E j \in CallsOf({"chunk", "compress"}) : ~calls[j].ok
    /\ Len(run.todo) >= 2
    /\ CallsOf({"master"}) # {} /\ CallsOf({"opening"}) # {} /\ CallsOf({"closing"}) # {}

\* the chunks of the document that went through loop iteration di
ChunksOfDoc(di) ==
    LET i == CHOOSE i \in DOMAIN run.mapped : run.mapped[i].di = di
    IN  chunk_text(FileAt(run.mapped[i].path).text, CHUNK_CHAR_LENGTH, CHUNK_CHAR_OVERLAP)

\* calls[j] is the chunk call of chunk idx of the document of iteration di
IsChunkCall(j, di, idx) ==
    /\ j \in DOMAIN calls
    /\ calls[j].stage = "chunk" /\ calls[j].di = di /\ calls[j].idx = idx

\* C28: within one document the chunk calls are made in chunk order, the call
\* of chunk i carrying that chunk and nothing else as the text of its user
\* prompt and following the returned call of chunk i - 1, and the compression
\* call is made only after the calls of all the chunks have returned.
C28_ChunkCallsInOrder ==
    \A j \in DOMAIN calls :
        LET c      == calls[j]
            chunks == ChunksOfDoc(c.di)
        IN  /\ c.stage = "chunk" =>
                  /\ c.idx \in DOMAIN chunks
                  /\ c.user = chunks[c.idx]
                  /\ IF c.idx = 1
                     THEN \A k \in DocCalls(c.di) : k >= j
                     ELSE IsChunkCall(j - 1, c.di, c.idx - 1) /\ calls[j - 1].ok
            /\ c.stage = "compress" =>
                  /\ Len(chunks) > 1
                  /\ \A i \in DOMAIN chunks :
                        /\ IsChunkCall(j - Len(chunks) - 1 + i, c.di, i)
                        /\ calls[j - Len(chunks) - 1 + i].ok

\* a document of two chunks whose two chunk calls returned and
\* whose compression call was made
C28_Witness ==
    \E j \in DOMAIN calls :
        /\ calls[j].stage = "compress"
        /\ Len(ChunksOfDoc(calls[j].di)) = 2
        /\ IsChunkCall(j - 1, calls[j].di, 2)
        /\ IsChunkCall(j - 2, calls[j].di, 1)

\* C29: every chunk that chunk_text has collected, and so every chunk it
\* returns, is non-empty and no longer than the maximum length it was given.
C29_ChunksNonEmptyAndBounded ==
    \A i \in DOMAIN ck.chunks :
        /\ ck.chunks[i] # <<>>
        /\ Len(ck.chunks[i]) <= ck.length

\* a returned call that dropped a blank window, kept a chunk of the full
\* length and kept a chunk that trimming made shorter than its window
C29_Witness ==
    /\ ck.pc = "done"
    /\ Len(ck.chunks) < Len(ck.windows)
    /\ \E i \in DOMAIN ck.chunks : Len(ck.chunks[i]) = ck.length
    /\ \E i \in DOMAIN ck.chunks : Len(ck.chunks[i]) < ck.length
    /\ ck.length >= 2

\* the trimmed texts of the windows w of text, in window order, without those
\* that trim to empty
RECURSIVE NonEmptyTrimmed(_, _)
NonEmptyTrimmed(text, w) ==
    IF w = <<>> THEN <<>>
    ELSE LET chunk == Strip(Slice(text, w[1].start, w[1].end))
         IN  (IF chunk # <<>> THEN <<chunk>> ELSE <<>>) \o NonEmptyTrimmed(text, Tail(w))

\* C30: the chunks of chunk_text are the trimmed texts of its windows that
\* are not empty, in window order; when it returns, its windows are in
\* strictly increasing order of start offset, and each window starts and ends
\* where the offsets of the one before it put it, whether or not a window
\* before it was dropped.
C30_ChunksAreNonEmptyWindows ==
    LET w == ck.windows
        n == Len(ck.text)
    IN  /\ ck.chunks = NonEmptyTrimmed(ck.text, w)
        /\ ck.pc = "done" =>
              \A i \in 2..Len(w) :
                  /\ w[i].start > w[i - 1].start
                  /\ w[i].start = Max(0, w[i - 1].end - ck.overlap)
                  /\ w[i].end = Min(w[i].start + ck.length, n)

\* a returned call whose middle window was dropped and whose two chunks differ
C30_Witness ==
    /\ ck.pc = "done"
    /\ Len(ck.windows) >= 3 /\ Len(ck.chunks) = 2
    /\ Strip(Slice(ck.text, ck.windows[2].start, ck.windows[2].end)) = <<>>
    /\ ck.chunks[1] # ck.chunks[2]

\* lengths of Master Summaries around the limits of the excerpts
ExcerptLens == {0, 1, 999, 1000, 1001, 1999, 2000, 2001, 2999, 3000, 3001, 3006, 6000}

\* a text of the given length whose characters tell their position
TextOfLen(len) == [i \in 1..len |-> ToString(i % 10)]

\* the excerpts of the texts of the lengths above are the leading
\* min(len, 3000) characters, and the leading min(len, 2000) characters, the
\* five-character separator and the trailing min(len, 1000) characters
ExcerptsOfLongTexts ==
    \A len \in ExcerptLens :
        LET t == TextOfLen(len)
            o == OpeningExcerpt(t)
            c == ClosingExcerpt(t)
        IN  /\ o = SubSeq(t, 1, Min(len, 3000))
            /\ Len(o) <= 3000
            /\ c = SubSeq(t, 1, Min(len, 2000)) \o <<"\n", ".", ".", ".", "\n">>
                       \o SubSeq(t, len - Min(len, 1000) + 1, len)
            /\ Len(c) <= 3005

\* C31: the opening call receives the leading min(len, 3000) characters of
\* the Master Summary, the closing call its leading 2000 characters, a
\* separator and its trailing 1000 characters, and the closing excerpt never
\* exceeds 3005 characters, whatever the length of the Master Summary.
C31_ExcerptsBounded ==
    /\ ExcerptsOfLongTexts
    /\ \A j \in CallsOf({"opening"}) :
          /\ calls[j].user = SubSeq(run.master_text, 1, Min(Len(run.master_text), 3000))
          /\ Len(calls[j].user) <= 3000
    /\ \A j \in CallsOf({"closing"}) :
          /\ calls[j].user = Prefix(run.master_text, 2000) \o <<"\n", ".", ".", ".", "\n">>
                                 \o Suffix(run.master_text, 1000)
          /\ Len(calls[j].user) <= 3005

\* a run that made the opening and the closing call on a Master Summary
C31_Witness ==
    /\ CallsOf({"opening"}) # {} /\ CallsOf({"closing"}) # {}
    /\ run.master_text # <<>>
    /\ Len(ClosingExcerpt(TextOfLen(6000))) = 3005

\* ceil(n / d) for d > 0
CeilDiv(n, d) == (n + d - 1) \div d

\* C32: for every text, every length >= 1 and every overlap with
\* 0 <= overlap < length, chunk_text returns: each window starts after the one
\* before it, and the number of windows never exceeds
\* ceil(n / (length - overlap)), n being the length of the trimmed text.
C32_TerminatesWithinBound ==
    /\ [](ck.overlap < ck.length =>
            /\ \A i \in 1..(Len(ck.windows) - 1) :
                  ck.windows[i + 1].start > ck.windows[i].start
            /\ Len(ck.windows) <= CeilDiv(Len(ck.text), ck.length - ck.overlap))
    /\ ((ck.overlap < ck.length) ~> (ck.pc = "done"))

\* a returned call with 0 < overlap < length that took as many windows as
\* the bound allows
C32_Witness ==
    /\ ck.pc = "done" /\ ck.overlap > 0 /\ ck.overlap < ck.length
    /\ Len(ck.windows) >= 2
    /\ Len(ck.windows) = CeilDiv(Len(ck.text), ck.length - ck.overlap)

\* C33: in a resume run every chunk call goes to the Cerebras backend and
\* every compression, master, opening and closing call to the OpenAI backend,
\* whatever calls failed before it.
C33_BackendFixedByStage ==
    ResumeRun =>
        \A j \in DOMAIN calls :
            /\ calls[j].stage = "chunk" => calls[j].backend = "cerebras"
            /\ calls[j].stage \in {"compress", "master", "opening", "closing"} =>
                  calls[j].backend = "openai"

\* a resume run with calls of all five stages in which a chunk call and a
\* compression call were made after a failed chunk call
C33_Witness ==
    /\ ResumeRun
    /\ \A st \in {"chunk", "compress", "master", "opening", "closing"} : CallsOf({st}) # {}
    /\ \E j, k, l \in DOMAIN calls :
          /\ j < k /\ j < l
          /\ calls[j].stage = "chunk" /\ ~calls[j].ok
          /\ calls[k].stage = "chunk"
          /\ calls[l].stage = "compress"

\* the name of the Daily Summary of the document of mapped[i]
OutNameOf(i) == SummaryName(PathStem(run.mapped[i].path.name))

\* the last gateway call made for the document of mapped[i] returned the
\* document's final daily result (the compression call, or the chunk call of
\* a document of one chunk) and that result is empty or whitespace
FinalResultBlank(i) ==
    LET J == DocCalls(run.mapped[i].di)
    IN  /\ J # {}
        /\ LET f == CHOOSE j \in J : \A k \in J : k <= j
           IN  /\ calls[f].ok
               /\ Strip(calls[f].reply) = <<>>
               /\ \/ calls[f].stage = "compress"
                  \/ calls[f].stage = "chunk" /\ ChunkCount(run.mapped[i].path) = 1

\* another iteration of the map loop of this run saved a Daily Summary under
\* the name of the document of mapped[i]
SavedByOther(i) ==
    \E h \in DOMAIN run.mapped :
        h # i /\ OutNameOf(h) = OutNameOf(i) /\ "saved" \in DocLog(h)

\* the document of mapped[i], whose final daily result was blank, was reported
\* as skipped and the loop went on; no Daily Summary was written under its
\* name and the one persisted before the run is unchanged, unless another
\* iteration of the loop saved one under that name
BlankResultLeftNoSummary(i) ==
    /\ DocLog(i) = {"empty"}
    /\ run.di > run.mapped[i].di
    /\ ~SavedByOther(i) =>
          /\ Op("write", "daily", OutNameOf(i)) \notin ops
          /\ OutNameOf(i) \in DOMAIN daily <=> OutNameOf(i) \in DOMAIN before.daily
          /\ OutNameOf(i) \in DOMAIN daily =>
                daily[OutNameOf(i)] = before.daily[OutNameOf(i)]

\* this step is the return of a gateway call with a document's final daily
\* result (the compression call, or the chunk call of a document of one
\* chunk), and the result is empty or whitespace
ReturnsBlankFinalResult ==
    /\ Len(calls') = Len(calls) + 1
    /\ LET c == calls'[Len(calls')]
       IN  /\ c.ok /\ Strip(c.reply) = <<>>
           /\ \/ c.stage = "compress"
              \/ c.stage = "chunk" /\ Len(run.chunks) = 1

\* C34: when the gateway returns empty or whitespace text as the final daily
\* result of a document, that step writes no Daily Summary and leaves every
\* persisted Daily Summary as it was, main reports the document as skipped,
\* not as an error, and the loop goes on to the next document.
C34_BlankResultNotWritten ==
    /\ [][ReturnsBlankFinalResult =>
            /\ daily' = daily
            /\ ops' = ops
            /\ run'.log = Append(run.log, [di |-> run.di, kind |-> "empty"])
            /\ run'.pc = "map" /\ run'.di = run.di + 1]_vars
    /\ [](\A i \in DOMAIN run.mapped :
            (DocOver(i) /\ FinalResultBlank(i)) => BlankResultLeftNoSummary(i))

\* the compression call of a document that has a Daily Summary from an
\* earlier run returned whitespace, and the loop then saved the summary of
\* the next document
C34_Witness ==
    \E i, h \in DOMAIN run.mapped :
        /\ i < h
        /\ DocOver(i) /\ FinalResultBlank(i) /\ ~SavedByOther(i)
        /\ \E j \in DocCalls(run.mapped[i].di) : calls[j].stage = "compress"
        /\ OutNameOf(i) \in DOMAIN before.daily
        /\ "saved" \in DocLog(h)

\* C35: when the master call raises, the Master Summary file is what the
\* earlier run left (or still absent) and the run has not written it; the
\* file changes only in the step in which a master call returns, and then to
\* the whole stripped reply of that call.
C35_FailedMasterKeepsFile ==
    /\ [](\A j \in CallsOf({"master"}) :
            ~calls[j].ok =>
                /\ master = before.master
                /\ Op("write", "master", MASTER_NAME) \notin ops)
    /\ [][master' # master =>
            /\ Len(calls') = Len(calls) + 1
            /\ LET c == calls'[Len(calls')]
               IN  /\ c.stage = "master" /\ c.ok
                   /\ master' = [exists |-> TRUE, text |-> Strip(c.reply)]]_vars

\* a run on a store that holds a Master Summary with text, whose master call
\* raised
C35_Witness ==
    /\ CallsOf({"master"}) # {}
    /\ ~calls[Len(calls)].ok /\ calls[Len(calls)].stage = "master"
    /\ before.master.exists /\ before.master.text # <<>>
    /\ master = before.master

\* there is a Daily Summary to synthesize: one saved in this run in the main
\* variant, one in the store in the resume variant
SummariesToSynthesize ==
    IF ResumeRun THEN StoredSummaries # {}
    ELSE \E l \in DOMAIN run.log : run.log[l].kind = "saved"

\* C36: when there is no Daily Summary to synthesize once the map step is
\* over, the run ends there: it makes no master, opening or closing call,
\* calls no renderer, and the Master Summary and the Reports are those it
\* found; a master call is made only when there is one to synthesize.
C36_NoSummariesEndsRun ==
    /\ (MapOver /\ run.pc # "gather" /\ ~SummariesToSynthesize) =>
          /\ run.pc = "done" /\ run.result = "no_summaries"
          /\ CallsOf({"master", "opening", "closing"}) = {}
          /\ renders = <<>>
          /\ master = before.master
          /\ reports = before.reports
          /\ \A o \in ops : o.op = "write" => o.dir \notin {"master", "output"}
    /\ CallsOf({"master"}) # {} => SummariesToSynthesize

\* a run of the main variant over documents none of which gave a summary,
\* on a store that holds Daily Summaries and a Master Summary of an earlier
\* run
C36_Witness ==
    /\ cfg.variant = "enhanced"
    /\ run.pc = "done" /\ run.result = "no_summaries"
    /\ Len(run.mapped) >= 2
    /\ before.master.exists /\ DOMAIN before.daily # {}
    /\ master = before.master

\* C37: a resume run in which the key of either backend is missing ends at
\* the load of the backends: it makes no gateway call, reads and writes no
\* file and leaves every artifact as it found it, also when the map step
\* would be skipped and the Cerebras backend never called.
C37_ResumeNeedsBothCredentials ==
    (ResumeRun /\ ~(env.cerebras /\ env.openai)) =>
        /\ run.pc \in {"load_llm", "done"}
        /\ run.pc = "done" => run.result = "crashed"
        /\ calls = <<>>
        /\ renders = <<>>
        /\ ops = {}
        /\ processed = before.processed
        /\ daily = before.daily
        /\ master = before.master
        /\ reports = before.reports

\* a resume run with the map step skipped and Daily Summaries in the store
\* that ended at the load because only the Cerebras key is missing
C37_Witness ==
    /\ ResumeRun /\ ~MapStepDue
    /\ env.openai /\ ~env.cerebras
    /\ StoredSummaries # {}
    /\ run.pc = "done" /\ run.result = "crashed"

\* the stems of the raw files that have usable text
UsableStems == {PathStem(f) : f \in {g \in RawFiles(raw) : Usable(g)}}

====
